---------------------------- MODULE Spec2Model ----------------------------
(***************************************************************************)
(* A model of the import-map resolution engine of                          *)
(* pushrbx/esbuild-plugin-importmap (package importmap).                   *)
(*                                                                         *)
(* Strings are sequences of one-character strings, so that prefixes,       *)
(* slices and lengths are those of the Go strings.  *url.URL values are    *)
(* records with the fields of net/url.URL the package reads; NilUrl is the *)
(* nil pointer.  The alphabet of the model has letters, digits and the     *)
(* characters : / . * - ; it has no ?, #, %, @ or [ ], so queries,         *)
(* fragments, escapes, user info and IPv6 hosts do not occur and the       *)
(* escaped path of a URL is its path.                                      *)
(*                                                                         *)
(* A call of the package ends in one of three ways: it returns a value, it *)
(* returns an error, or it aborts (a Go run-time panic: an index or slice  *)
(* out of range, an assignment to an entry of a nil map).  Outcomes are    *)
(* records [k, v]: k is "ok", the kind of the error, or "panic".           *)
(***************************************************************************)
EXTENDS Integers, Sequences, FiniteSets, TLC

---------------------------------------------------------------------------
(* Strings                                                                 *)

Letters == {"a", "b", "c", "d", "e", "f", "g", "h", "i", "j", "k", "l", "m",
            "n", "o", "p", "q", "r", "s", "t", "u", "v", "w", "x", "y", "z"}

Digits == {"0", "1", "2", "3", "4", "5", "6", "7", "8", "9"}

\* strings.HasPrefix
HasPrefix(s, p) == Len(p) <= Len(s) /\ SubSeq(s, 1, Len(p)) = p

\* strings.HasSuffix
HasSuffix(s, p) == Len(p) <= Len(s) /\ SubSeq(s, Len(s) - Len(p) + 1, Len(s)) = p

\* s[n:] of Go, for 0 <= n <= len(s); the callers guard the range
From(s, n) == SubSeq(s, n + 1, Len(s))

\* s[:n] of Go, for 0 <= n <= len(s)
To(s, n) == SubSeq(s, 1, n)

\* strings.Contains(s, c) for a one-character c
Contains(s, c) == \E i \in 1..Len(s) : s[i] = c

\* strings.Index(s, c) + 1 for a one-character c: the first position, 0 if none
Index(s, c) ==
    IF Contains(s, c) THEN CHOOSE i \in 1..Len(s) : s[i] = c /\ \A j \in 1..(i - 1) : s[j] # c
    ELSE 0

\* strings.LastIndex(s, c) + 1 for a one-character c: the last position, 0 if none
LastIndex(s, c) ==
    IF Contains(s, c) THEN CHOOSE i \in 1..Len(s) : s[i] = c /\ \A j \in (i + 1)..Len(s) : s[j] # c
    ELSE 0

\* the first result of strings.Cut(s, "/")
FirstSegment(s) == IF Contains(s, "/") THEN To(s, Index(s, "/") - 1) ELSE s

\* strings.Split(s, "/"): the elements between the slashes
RECURSIVE SplitSlash(_)
SplitSlash(s) ==
    IF Contains(s, "/")
    THEN <<To(s, Index(s, "/") - 1)>> \o SplitSlash(From(s, Index(s, "/")))
    ELSE <<s>>

\* strings.Join(elems, "/")
RECURSIVE JoinSlash(_)
JoinSlash(elems) ==
    IF Len(elems) = 0 THEN <<>>
    ELSE IF Len(elems) = 1 THEN elems[1]
    ELSE elems[1] \o <<"/">> \o JoinSlash(Tail(elems))

---------------------------------------------------------------------------
(* net/url and path of the Go standard library, as the package uses them   *)

NilUrl == [nil |-> TRUE]

MkUrl(scheme, opaque, host, path, omitHost) ==
    [Scheme |-> scheme, Opaque |-> opaque, Host |-> host, Path |-> path,
     OmitHost |-> omitHost]

\* url.getScheme: the scheme before the first ':' when only scheme characters
\* come before it
RECURSIVE getSchemeAt(_, _)
getSchemeAt(rawURL, i) ==
    IF i > Len(rawURL) THEN [err |-> FALSE, scheme |-> <<>>, rest |-> rawURL]
    ELSE IF rawURL[i] \in Letters THEN getSchemeAt(rawURL, i + 1)
    ELSE IF rawURL[i] \in Digits \cup {"+", "-", "."}
         THEN IF i = 1 THEN [err |-> FALSE, scheme |-> <<>>, rest |-> rawURL]
              ELSE getSchemeAt(rawURL, i + 1)
    ELSE IF rawURL[i] = ":"
         THEN IF i = 1 THEN [err |-> TRUE, scheme |-> <<>>, rest |-> <<>>]
              ELSE [err |-> FALSE, scheme |-> To(rawURL, i - 1), rest |-> From(rawURL, i)]
    ELSE [err |-> FALSE, scheme |-> <<>>, rest |-> rawURL]

getScheme(rawURL) == getSchemeAt(rawURL, 1)

\* url.validOptionalPort: after the last ':' of a host, at colon, come digits only
validOptionalPort(host, colon) ==
    colon = 0 \/ \A i \in (colon + 1)..Len(host) : host[i] \in Digits

\* url.parseHost
validHost(host) == validOptionalPort(host, LastIndex(host, ":"))

\* url.parse on an authority: s is the text after "//", slash the position of its
\* first '/' (0 if none)
parseAuthority(scheme, s, slash) ==
    IF validHost(IF slash = 0 THEN s ELSE To(s, slash - 1))
    THEN [err |-> FALSE,
          url |-> MkUrl(scheme, <<>>, IF slash = 0 THEN s ELSE To(s, slash - 1),
                        IF slash = 0 THEN <<>> ELSE From(s, slash - 1), FALSE)]
    ELSE [err |-> TRUE, url |-> NilUrl]

\* url.parse after getScheme, whose result is gs
parseRest(gs, viaRequest) ==
    IF gs.err THEN [err |-> TRUE, url |-> NilUrl]
    ELSE IF ~HasPrefix(gs.rest, <<"/">>)
         THEN IF gs.scheme # <<>>
              THEN [err |-> FALSE, url |-> MkUrl(gs.scheme, gs.rest, <<>>, <<>>, FALSE)]
              ELSE IF viaRequest \/ Contains(FirstSegment(gs.rest), ":")
              THEN [err |-> TRUE, url |-> NilUrl]
              ELSE [err |-> FALSE, url |-> MkUrl(<<>>, <<>>, <<>>, gs.rest, FALSE)]
    ELSE IF (gs.scheme # <<>> \/ (~viaRequest /\ ~HasPrefix(gs.rest, <<"/", "/", "/">>)))
            /\ HasPrefix(gs.rest, <<"/", "/">>)
         THEN parseAuthority(gs.scheme, From(gs.rest, 2), Index(From(gs.rest, 2), "/"))
    ELSE [err |-> FALSE, url |-> MkUrl(gs.scheme, <<>>, <<>>, gs.rest, gs.scheme # <<>>)]

\* url.parse(rawURL, viaRequest): [err, url]
parse(rawURL, viaRequest) ==
    IF rawURL = <<>> /\ viaRequest THEN [err |-> TRUE, url |-> NilUrl]
    ELSE IF rawURL = <<"*">> THEN [err |-> FALSE, url |-> MkUrl(<<>>, <<>>, <<>>, <<"*">>, FALSE)]
    ELSE parseRest(getScheme(rawURL), viaRequest)

\* url.Parse
Parse(rawURL) == parse(rawURL, FALSE)

\* url.ParseRequestURI
ParseRequestURI(rawURL) == parse(rawURL, TRUE)

\* (*URL).String
String(u) ==
    LET scheme == IF u.Scheme # <<>> THEN u.Scheme \o <<":">> ELSE <<>>
        hostPart ==
            IF u.Scheme # <<>> \/ u.Host # <<>>
            THEN IF u.OmitHost /\ u.Host = <<>> THEN <<>>
                 ELSE (IF u.Host # <<>> \/ u.Path # <<>> THEN <<"/", "/">> ELSE <<>>) \o u.Host
            ELSE <<>>
        sep == IF u.Path # <<>> /\ u.Path[1] # "/" /\ u.Host # <<>> THEN <<"/">> ELSE <<>>
        dot == IF scheme \o hostPart \o sep = <<>> /\ Contains(FirstSegment(u.Path), ":")
               THEN <<".", "/">> ELSE <<>>
    IN  IF u.Opaque # <<>> THEN scheme \o u.Opaque
        ELSE scheme \o hostPart \o sep \o dot \o u.Path

\* the loop of url.resolvePath: dst is the text after the leading '/'
RECURSIVE resolveElems(_, _, _)
resolveElems(elems, dst, first) ==
    IF Len(elems) = 0 THEN dst
    ELSE IF Head(elems) = <<".">> THEN resolveElems(Tail(elems), dst, FALSE)
    ELSE IF Head(elems) = <<".", ".">>
         THEN IF LastIndex(dst, "/") = 0 THEN resolveElems(Tail(elems), <<>>, TRUE)
              ELSE resolveElems(Tail(elems), To(dst, LastIndex(dst, "/") - 1), first)
    ELSE resolveElems(Tail(elems),
                      dst \o (IF first THEN <<>> ELSE <<"/">>) \o Head(elems), FALSE)

\* url.resolvePath from the elements of the full path: the leading '/', the
\* elements without their dot segments, a '/' after a last "." or ".."
resolvedElems(elems) ==
    <<"/">> \o resolveElems(elems, <<>>, TRUE)
        \o (IF elems[Len(elems)] \in {<<".">>, <<".", ".">>} THEN <<"/">> ELSE <<>>)

\* the end of url.resolvePath: a "//" at the start becomes "/"
trimSlash(r) == IF Len(r) > 1 /\ r[2] = "/" THEN From(r, 1) ELSE r

\* url.resolvePath on the full path
resolveFull(full) == IF full = <<>> THEN <<>> ELSE trimSlash(resolvedElems(SplitSlash(full)))

\* url.resolvePath(base, ref)
resolvePath(base, ref) ==
    resolveFull(IF ref = <<>> THEN base
                ELSE IF ref[1] # "/" THEN To(base, LastIndex(base, "/")) \o ref
                ELSE ref)

\* (*URL).ResolveReference
ResolveReference(u, ref) ==
    LET scheme == IF ref.Scheme = <<>> THEN u.Scheme ELSE ref.Scheme
    IN  IF ref.Scheme # <<>> \/ ref.Host # <<>>
        THEN MkUrl(scheme, ref.Opaque, ref.Host, resolvePath(ref.Path, <<>>), ref.OmitHost)
        ELSE IF ref.Opaque # <<>>
        THEN MkUrl(scheme, ref.Opaque, <<>>, <<>>, ref.OmitHost)
        ELSE IF ref.Path = <<>> /\ u.Opaque # <<>>
        THEN MkUrl(scheme, u.Opaque, <<>>, <<>>, ref.OmitHost)
        ELSE MkUrl(scheme, <<>>, u.Host, resolvePath(u.Path, ref.Path), ref.OmitHost)

\* the loop of path.Clean over the elements of a path
RECURSIVE cleanElems(_, _, _)
cleanElems(elems, out, rooted) ==
    IF Len(elems) = 0 THEN out
    ELSE IF Head(elems) = <<>> \/ Head(elems) = <<".">> THEN cleanElems(Tail(elems), out, rooted)
    ELSE IF Head(elems) = <<".", ".">>
         THEN IF Len(out) > 0 /\ out[Len(out)] # <<".", ".">>
              THEN cleanElems(Tail(elems), To(out, Len(out) - 1), rooted)
              ELSE IF rooted THEN cleanElems(Tail(elems), out, rooted)
              ELSE cleanElems(Tail(elems), Append(out, <<".", ".">>), rooted)
    ELSE cleanElems(Tail(elems), Append(out, Head(elems)), rooted)

\* the end of path.Clean: body is the cleaned elements joined
cleaned(rooted, body) ==
    IF rooted THEN <<"/">> \o body
    ELSE IF body = <<>> THEN <<".">>
    ELSE body

\* path.Clean
Clean(p) ==
    IF p = <<>> THEN <<".">>
    ELSE cleaned(p[1] = "/", JoinSlash(cleanElems(SplitSlash(p), <<>>, p[1] = "/")))

\* path.Join on its non-empty elements
joinNonEmpty(nonEmpty) == IF Len(nonEmpty) = 0 THEN <<>> ELSE Clean(JoinSlash(nonEmpty))

\* path.Join: the non-empty elements joined by '/' and cleaned
pathJoin(elems) == joinNonEmpty(SelectSeq(elems, LAMBDA e : e # <<>>))

\* the end of (*URL).JoinPath: p is the joined path; a trailing '/' of the last
\* element is kept
joinedPath(u, elem, p) ==
    [u EXCEPT !.Path = IF HasSuffix(elem[Len(elem)], <<"/">>) /\ ~HasSuffix(p, <<"/">>)
                       THEN p \o <<"/">> ELSE p]

\* (*URL).JoinPath
URLJoinPath(u, elem) ==
    joinedPath(u, elem,
               IF ~HasPrefix(u.Path, <<"/">>)
               THEN From(pathJoin(<<<<"/">> \o u.Path>> \o elem), 1)
               ELSE pathJoin(<<u.Path>> \o elem))

\* url.JoinPath after url.Parse of the base, whose result is p
joinParsed(p, elem) ==
    IF p.err THEN [err |-> TRUE, v |-> <<>>]
    ELSE [err |-> FALSE, v |-> String(URLJoinPath(p.url, elem))]

\* url.JoinPath(base, elem...): [err, v]
JoinPath(base, elem) == joinParsed(Parse(base), elem)

---------------------------------------------------------------------------
(* Outcomes of a call                                                      *)

Ok(v) == [k |-> "ok", v |-> v]

\* a returned error of the given kind
Err(kind) == [k |-> kind, v |-> <<>>]

\* a run-time panic of Go: the call aborts
Panic == [k |-> "panic", v |-> <<>>]

IsOk(r) == r.k = "ok"

---------------------------------------------------------------------------
(* The URL helpers of the package                                          *)

\* resolve of a root-relative input after url.JoinPath, whose result is j
resolveJoined(j) == IF j.err THEN Err("MalformedUrl") ELSE Ok(j.v)

\* resolve of any other input after url.Parse, whose result is p
resolveParsed(p, mapUrl) ==
    IF p.err THEN Err("MalformedUrl")
    ELSE Ok(String(IF mapUrl # NilUrl THEN ResolveReference(mapUrl, p.url) ELSE p.url))

\* resolve: the absolute form of inputUrl under (mapUrl, rootUrl)
resolve(inputUrl, mapUrl, rootUrl) ==
    IF HasPrefix(inputUrl, <<"/">>)
    THEN IF rootUrl # NilUrl
         THEN IF Len(inputUrl) < 2 THEN Panic   \* inputUrl[1] of a one-character string
              ELSE resolveJoined(JoinPath(String(rootUrl),
                                          <<<<".">>, IF inputUrl[2] = "/" THEN From(inputUrl, 1)
                                                     ELSE inputUrl>>))
         ELSE Ok(inputUrl)
    ELSE resolveParsed(Parse(inputUrl), mapUrl)

\* sameOrigin: the port is part of Host, so equal hosts have equal ports
sameOrigin(inputUrl, baseUrl) ==
    /\ inputUrl # NilUrl
    /\ baseUrl # NilUrl
    /\ inputUrl.Scheme = baseUrl.Scheme
    /\ inputUrl.Host = baseUrl.Host

\* the branches of rebase: resolved is the absolute input, s its text, root the
\* text of rootUrl ("" when there is none)
rebaseTexts(resolved, s, root, baseUrl, rootUrl) ==
    IF rootUrl # NilUrl /\ HasPrefix(s, root)
    THEN IF Len(root) = 0 THEN Panic   \* a slice from -1
         ELSE Ok(From(s, Len(root) - 1))
    ELSE IF rootUrl # NilUrl /\ HasPrefix(root, s)
    THEN Ok(<<"/">> \o String(ResolveReference(rootUrl, resolved)))
    ELSE IF sameOrigin(resolved, baseUrl)
    THEN Ok(String(ResolveReference(baseUrl, resolved)))
    ELSE Ok(s)

\* rebase once the input is resolved
rebaseResolved(resolved, baseUrl, rootUrl) ==
    rebaseTexts(resolved, String(resolved),
                IF rootUrl = NilUrl THEN <<>> ELSE String(rootUrl), baseUrl, rootUrl)

\* rebase after url.Parse of the input, whose result is p
rebaseParsed(inputUrl, p, baseUrl, rootUrl) ==
    IF p.err THEN Err("MalformedUrl")
    ELSE IF HasPrefix(inputUrl, <<"/">>) /\ rootUrl = NilUrl THEN Ok(inputUrl)
    ELSE rebaseResolved(ResolveReference(IF HasPrefix(inputUrl, <<"/">>) THEN rootUrl
                                         ELSE baseUrl, p.url),
                        baseUrl, rootUrl)

\* rebase: the compact form of inputUrl under (baseUrl, rootUrl)
rebase(inputUrl, baseUrl, rootUrl) ==
    IF baseUrl = NilUrl THEN Err("InvalidArgument")
    ELSE rebaseParsed(inputUrl, Parse(inputUrl), baseUrl, rootUrl)

\* isUrl
isUrl(inputUrl) == ~ParseRequestURI(inputUrl).err

\* isRelative
isRelative(specifier) ==
    \/ HasPrefix(specifier, <<".", "/">>)
    \/ HasPrefix(specifier, <<".", ".", "/">>)
    \/ HasPrefix(specifier, <<"/">>)

\* isPlain
isPlain(specifier) == ~isRelative(specifier) /\ ~isUrl(specifier)

---------------------------------------------------------------------------
(* Go maps.  A table (Imports, Scope, Integrity) is a function from its    *)
(* keys to strings; a Scopes map is a function from scope keys to the      *)
(* references of Scope tables.  A map is a reference: tabs and stabs are   *)
(* the heaps of tables and of Scopes maps, and reference 0 is the nil map. *)

NilMap == 0

EmptyTable == <<>>

\* m[k] = v
Put(t, k, v) == [x \in (DOMAIN t) \cup {k} |-> IF x = k THEN v ELSE t[x]]

\* delete(m, k)
Del(t, k) == [x \in (DOMAIN t) \ {k} |-> t[x]]

\* m[k] of a string table: the zero value "" for an absent key
Get(t, k) == IF k \in DOMAIN t THEN t[k] ELSE <<>>

\* the table a reference denotes; a nil map reads as an empty one
TableAt(heap, ref) == IF ref = NilMap THEN EmptyTable ELSE heap[ref]

\* the orders in which a range statement may produce the keys of a map
Orders(S) ==
    {o \in [1..Cardinality(S) -> S] : \A i, j \in 1..Cardinality(S) : i # j => o[i] # o[j]}

---------------------------------------------------------------------------
(* Resolution                                                              *)

\* A variant of the loop of getMapMatch that keeps the shortest matching prefix
\* key (the comparison of the lengths reversed).
RECURSIVE mapMatchScanShortest(_, _, _)
mapMatchScanShortest(specifier, order, curMatch) ==
    IF Len(order) = 0 THEN curMatch
    ELSE IF (HasSuffix(Head(order), <<"/">>) \/ HasSuffix(Head(order), <<"*">>))
            /\ HasPrefix(specifier, To(Head(order), Len(Head(order)) - 1))
            /\ (curMatch = <<>> \/ Len(Head(order)) < Len(curMatch))
    THEN mapMatchScanShortest(specifier, Tail(order), Head(order))
    ELSE mapMatchScanShortest(specifier, Tail(order), curMatch)

\* the loop of getMapMatch over the keys in the order the range produces them
RECURSIVE mapMatchScan(_, _, _)
mapMatchScan(specifier, order, curMatch) ==
    IF Len(order) = 0 THEN curMatch
    ELSE LET match == Head(order)
             wildcard == HasSuffix(match, <<"*">>)
         IN  IF ~HasSuffix(match, <<"/">>) /\ ~wildcard
             THEN mapMatchScan(specifier, Tail(order), curMatch)
             ELSE IF HasPrefix(specifier, To(match, Len(match) - 1))
                     /\ (curMatch = <<>> \/ Len(match) > Len(curMatch))
             THEN mapMatchScan(specifier, Tail(order), match)
             ELSE mapMatchScan(specifier, Tail(order), curMatch)

\* A variant of getMapMatch without the test for the exact key.
getMapMatchInPrefixOnly(specifier, inputMap, order) == mapMatchScan(specifier, order, <<>>)

\* getMapMatch under one iteration order of the map
getMapMatchIn(specifier, inputMap, order) ==
    IF specifier \in DOMAIN inputMap THEN specifier
    ELSE mapMatchScan(specifier, order, <<>>)

\* getMapMatch: the keys it may return, one for each iteration order ("" is no match)
getMapMatch(specifier, inputMap) ==
    {getMapMatchIn(specifier, inputMap, o) : o \in Orders(DOMAIN inputMap)}

\* the candidates of getScopeMatches: the outcome of resolve on each scope key
scopeCandidates(scopes, mapUrl, rootUrl) ==
    [scope \in DOMAIN scopes |-> resolve(scope, mapUrl, rootUrl)]

\* A variant of the sort of getScopeMatches that puts the longest location first.
sortedOrdersDescending(candidates) ==
    {o \in Orders(DOMAIN candidates) :
        \A i \in 1..(Len(o) - 1) : Len(candidates[o[i]].v) >= Len(candidates[o[i + 1]].v)}

\* sort.Slice by the length of the location: any order of the candidates in which
\* the lengths do not decrease (the sort is not stable and the range order is free)
sortedOrders(candidates) ==
    {o \in Orders(DOMAIN candidates) :
        \A i \in 1..(Len(o) - 1) : Len(candidates[o[i]].v) <= Len(candidates[o[i + 1]].v)}

\* A variant of the test of getScopeMatches without the equality of the locations.
scopeMatchesPrefixOnly(scopeUrl, parentUrl) ==
    HasSuffix(scopeUrl, <<"/">>) /\ HasPrefix(parentUrl, scopeUrl)

\* the test of getScopeMatches on one candidate
scopeMatches(scopeUrl, parentUrl) ==
    scopeUrl = parentUrl \/ (HasSuffix(scopeUrl, <<"/">>) /\ HasPrefix(parentUrl, scopeUrl))

\* getScopeMatches once the candidates are built: v is the list of the matching
\* candidates, <<scope key, absolute scope location>>
matchCandidates(parentUrl, candidates) ==
    IF \E sc \in DOMAIN candidates : ~IsOk(candidates[sc])
    THEN {[k |-> candidates[sc].k, v |-> <<>>] :
          sc \in {x \in DOMAIN candidates : ~IsOk(candidates[x])}}
    ELSE {[k |-> "ok",
           v |-> SelectSeq([n \in 1..Len(o) |-> <<o[n], candidates[o[n]].v>>],
                           LAMBDA c : scopeMatches(c[2], parentUrl))] :
          o \in sortedOrders(candidates)}

\* getScopeMatches: its possible outcomes
getScopeMatches(parentUrl, scopes, mapUrl, rootUrl) ==
    matchCandidates(parentUrl, scopeCandidates(scopes, mapUrl, rootUrl))

\* the map match of ResolveWithParent against one table, with its retries on the
\* rebased specifier: the specifier it ends with and the key matched ("" is none)
tryMatch(specifier, nonPlain, table, mapUrl, rootUrl) ==
    LET done(sp, mm) == [k |-> "ok", specifier |-> sp, mapMatch |-> mm]
        fail(kind) == [k |-> kind, specifier |-> <<>>, mapMatch |-> <<>>]
        third(sp) ==
            UNION {IF ~IsOk(r) THEN {fail(r.k)}
                   ELSE {done(r.v, mm) : mm \in getMapMatch(r.v, table)} :
                   r \in {rebase(sp, mapUrl, NilUrl)}}
        second(sp) ==
            UNION {IF ~IsOk(r) THEN {fail(r.k)}
                   ELSE UNION {IF mm = <<>> /\ rootUrl # NilUrl THEN third(r.v)
                               ELSE {done(r.v, mm)} : mm \in getMapMatch(r.v, table)} :
                   r \in {rebase(sp, mapUrl, rootUrl)}}
    IN  UNION {IF mm = <<>> /\ nonPlain THEN second(specifier)
               ELSE {done(specifier, mm)} : mm \in getMapMatch(specifier, table)}

\* the result on a match: the target with the unmatched tail of the specifier
matchResult(target, specifier, mapMatch, mapUrl, rootUrl) ==
    IF Len(mapMatch) > Len(specifier) THEN Panic   \* specifier[len(mapMatch):] out of range
    ELSE resolve(target \o From(specifier, Len(mapMatch)), mapUrl, rootUrl)

\* the message of the error for an unmapped plain specifier
unresolvedMessage(specifier, parentUrl) ==
    <<"u", "n", "a", "b", "l", "e", " ", "t", "o", " ", "r", "e", "s", "o", "l", "v", "e", " ">>
        \o specifier \o <<" ", "i", "n", " ">> \o String(parentUrl)

\* A result of ResolveWithParent with what the call went through: sm is the list
\* of the matching scopes it built (empty when it ended before), via.from says
\* where it ended: "early" before the list was built, "retry" on a failed rebase
\* of the specifier, "scope" on a match in the table of the scope via.scope,
\* "imports" on a match in the top-level table, "none" after no table matched
Traced(r, sm, from, scope) ==
    [k |-> r.k, v |-> r.v, sm |-> sm, via |-> [from |-> from, scope |-> scope]]

\* A variant of the end of ResolveWithParent whose pass-through returns the
\* specifier as the retries left it, not the absolute specifier.
resolveTopLevelRebased(imports, sm, specifier, nonPlain, specifierUrl, parentUrl, mapUrl, rootUrl) ==
    {IF ~IsOk(mm) THEN Traced(Err(mm.k), sm, "retry", <<>>)
     ELSE IF mm.mapMatch # <<>>
          THEN Traced(matchResult(imports[mm.mapMatch], mm.specifier, mm.mapMatch, mapUrl, rootUrl),
                      sm, "imports", <<>>)
     ELSE IF nonPlain THEN Traced(Ok(mm.specifier), sm, "none", <<>>)
     ELSE Traced([k |-> "UnresolvedSpecifier", v |-> unresolvedMessage(mm.specifier, parentUrl)],
                 sm, "none", <<>>) :
     mm \in tryMatch(specifier, nonPlain, imports, mapUrl, rootUrl)}

\* the end of ResolveWithParent: the top-level table, then the pass-through
resolveTopLevel(imports, sm, specifier, nonPlain, specifierUrl, parentUrl, mapUrl, rootUrl) ==
    {IF ~IsOk(mm) THEN Traced(Err(mm.k), sm, "retry", <<>>)
     ELSE IF mm.mapMatch # <<>>
          THEN Traced(matchResult(imports[mm.mapMatch], mm.specifier, mm.mapMatch, mapUrl, rootUrl),
                      sm, "imports", <<>>)
     ELSE IF nonPlain THEN Traced(Ok(String(specifierUrl)), sm, "none", <<>>)
     ELSE Traced([k |-> "UnresolvedSpecifier", v |-> unresolvedMessage(mm.specifier, parentUrl)],
                 sm, "none", <<>>) :
     mm \in tryMatch(specifier, nonPlain, imports, mapUrl, rootUrl)}

\* A variant of ResolveWithParent that consults the top-level table before the
\* tables of the matching scopes, and so never reaches them.
resolveScopesAfterImports(heap, scopes, imports, sm, n, specifier, nonPlain, specifierUrl, parentUrl, i) ==
    resolveTopLevel(imports, sm, specifier, nonPlain, specifierUrl, parentUrl, i.mapUrl, i.rootUrl)

\* the loop of ResolveWithParent over the matching scopes sm, from the n-th on
RECURSIVE resolveScopes(_, _, _, _, _, _, _, _, _, _)
resolveScopes(heap, scopes, imports, sm, n, specifier, nonPlain, specifierUrl, parentUrl, i) ==
    IF n > Len(sm)
    THEN resolveTopLevel(imports, sm, specifier, nonPlain, specifierUrl, parentUrl,
                         i.mapUrl, i.rootUrl)
    ELSE LET table == TableAt(heap, scopes[sm[n][1]])
         IN  UNION {IF ~IsOk(mm) THEN {Traced(Err(mm.k), sm, "retry", <<>>)}
                    ELSE IF mm.mapMatch # <<>>
                         THEN {Traced(matchResult(table[mm.mapMatch], mm.specifier, mm.mapMatch,
                                                  i.mapUrl, i.rootUrl),
                                      sm, "scope", sm[n][1])}
                    ELSE resolveScopes(heap, scopes, imports, sm, n + 1, mm.specifier,
                                       nonPlain, specifierUrl, parentUrl, i) :
                    mm \in tryMatch(specifier, nonPlain, table, i.mapUrl, i.rootUrl)}

\* ResolveWithParent from getScopeMatches on: parentUrlRaw is the canonical
\* parent, specifierUrl the absolute specifier (NilUrl for a plain one)
resolveIn(heap, sheap, i, specifier, nonPlain, specifierUrl, parentUrl, parentUrlRaw) ==
    UNION {IF ~IsOk(sm) THEN {Traced(Err(sm.k), <<>>, "early", <<>>)}
           ELSE resolveScopes(heap, TableAt(sheap, i.scopes), TableAt(heap, i.imports), sm.v, 1,
                              IF nonPlain THEN String(specifierUrl) ELSE specifier, nonPlain,
                              specifierUrl, parentUrl, i) :
           sm \in getScopeMatches(parentUrlRaw, TableAt(sheap, i.scopes), i.mapUrl, i.rootUrl)}

\* ResolveWithParent after resolve on the parent, whose outcome is parentUrlRaw,
\* and url.Parse on the specifier, whose result is u
resolveFrom(heap, sheap, i, specifier, nonPlain, u, parentUrl, parentUrlRaw) ==
    IF ~IsOk(parentUrlRaw) THEN {Traced(Err(parentUrlRaw.k), <<>>, "early", <<>>)}
    ELSE IF nonPlain /\ u.err THEN {Traced(Err("MalformedUrl"), <<>>, "early", <<>>)}
    ELSE resolveIn(heap, sheap, i, specifier, nonPlain,
                   IF nonPlain THEN ResolveReference(parentUrl, u.url) ELSE NilUrl,
                   parentUrl, parentUrlRaw.v)

\* importMap.ResolveWithParent on the map i of the heaps: the set of its possible
\* outcomes (the range order of the maps and the unstable sort are free)
ResolveWithParent(heap, sheap, i, specifier, parentUrl) ==
    resolveFrom(heap, sheap, i, specifier, ~isPlain(specifier), Parse(specifier), parentUrl,
                resolve(String(parentUrl), i.mapUrl, i.rootUrl))

\* what ResolveWithParent returns to its caller: a location, an error or an abort
Returned(r) == [k |-> r.k, v |-> r.v]

---------------------------------------------------------------------------
(* Relocation.  A range over a Go map produces every entry that is there   *)
(* from the start and is still there when its turn comes, in any order; an *)
(* entry created during the range may be produced or skipped.  must holds  *)
(* the keys still to be produced, may the created keys that may be; a key  *)
(* is produced at most once.  Outcomes carry the table as the loop left    *)
(* it: an error or an abort leaves it partly rewritten.                    *)

\* the end of the body on the entry of importKey: newImport is the outcome of
\* rebase on its key, t the table with the new target
moveEntry(t, importKey, newImport) ==
    IF ~IsOk(newImport) THEN [k |-> newImport.k, t |-> t]
    ELSE IF newImport.v # importKey
    THEN [k |-> "ok", t |-> Del(Put(t, newImport.v, t[importKey]), importKey)]
    ELSE [k |-> "ok", t |-> t]

\* the body from resolve on the key, whose outcome is resolvedImportKey
rebaseKey(t, importKey, resolvedImportKey, mapUrl, rootUrl) ==
    IF ~IsOk(resolvedImportKey) THEN [k |-> resolvedImportKey.k, t |-> t]
    ELSE moveEntry(t, importKey, rebase(resolvedImportKey.v, mapUrl, rootUrl))

\* the body from the assignment of the new target on: newTarget is the outcome of
\* rebase on the target; an error leaves "" in the entry
setTarget(t, importKey, newTarget, old, mapUrl, rootUrl) ==
    IF newTarget.k = "panic" THEN [k |-> "panic", t |-> t]
    ELSE IF ~IsOk(newTarget) THEN [k |-> newTarget.k, t |-> Put(t, importKey, newTarget.v)]
    ELSE IF isPlain(importKey) THEN [k |-> "ok", t |-> Put(t, importKey, newTarget.v)]
    ELSE rebaseKey(Put(t, importKey, newTarget.v), importKey,
                   resolve(importKey, old.mapUrl, old.rootUrl), mapUrl, rootUrl)

\* the body from resolve on the target, whose outcome is resolvedTarget
rebaseTarget(t, importKey, resolvedTarget, old, mapUrl, rootUrl) ==
    IF ~IsOk(resolvedTarget) THEN [k |-> resolvedTarget.k, t |-> t]
    ELSE setTarget(t, importKey, rebase(resolvedTarget.v, old.mapUrl, old.rootUrl),
                   old, mapUrl, rootUrl)

\* the body of the loops of Rebase over an Imports or Scope table, on one entry:
\* old is the map before the call, (mapUrl, rootUrl) the pair it moves to
rebaseEntry(t, importKey, old, mapUrl, rootUrl) ==
    rebaseTarget(t, importKey, resolve(t[importKey], old.mapUrl, old.rootUrl),
                 old, mapUrl, rootUrl)

\* the entries a range over a Go map produces at most
MaxRange == 4

\* a range over a Go map produces an entry made during it, or skips it: of the
\* entries in may, made during the range, it produces one only while it has
\* produced fewer than MaxRange entries
produced(may, visited) == IF Cardinality(visited) < MaxRange THEN may ELSE {}

\* the range of Rebase over an Imports or Scope table
RECURSIVE walkTable(_, _, _, _, _, _, _)
walkTable(t, must, may, visited, old, mapUrl, rootUrl) ==
    (IF must = {} THEN {[k |-> "ok", t |-> t]} ELSE {})
    \cup UNION {UNION {IF r.k # "ok" THEN {r}
                       ELSE walkTable(r.t,
                                      (must \ {key}) \cap DOMAIN r.t,
                                      ((may \cup ((DOMAIN r.t) \ (DOMAIN t)))
                                          \ (visited \cup {key})) \cap DOMAIN r.t,
                                      visited \cup {key}, old, mapUrl, rootUrl) :
                       r \in {rebaseEntry(t, key, old, mapUrl, rootUrl)}} :
                key \in must \cup produced(may, visited)}

\* the end of the body on the scope of scopeKey: newScope is the outcome of rebase
\* on its key
moveScope(heap, st, scopeKey, newScope) ==
    IF ~IsOk(newScope) THEN [k |-> newScope.k, heap |-> heap, st |-> st]
    ELSE IF newScope.v # scopeKey
    THEN [k |-> "ok", heap |-> heap, st |-> Del(Put(st, newScope.v, st[scopeKey]), scopeKey)]
    ELSE [k |-> "ok", heap |-> heap, st |-> st]

\* the body from resolve on the scope key, whose outcome is resolvedScopeKey
rebaseScopeKey(heap, st, scopeKey, resolvedScopeKey, mapUrl, rootUrl) ==
    IF ~IsOk(resolvedScopeKey) THEN [k |-> resolvedScopeKey.k, heap |-> heap, st |-> st]
    ELSE moveScope(heap, st, scopeKey, rebase(resolvedScopeKey.v, mapUrl, rootUrl))

\* the body of the loop of Rebase over the scopes, on one scope: the heap of tables
\* and the Scopes map after it
rebaseScope(heap, st, scopeKey, old, mapUrl, rootUrl) ==
    {IF w.k # "ok" THEN [k |-> w.k, heap |-> [heap EXCEPT ![st[scopeKey]] = w.t], st |-> st]
     ELSE rebaseScopeKey([heap EXCEPT ![st[scopeKey]] = w.t], st, scopeKey,
                         resolve(scopeKey, old.mapUrl, old.rootUrl), mapUrl, rootUrl) :
     w \in walkTable(heap[st[scopeKey]], DOMAIN heap[st[scopeKey]], {}, {}, old, mapUrl, rootUrl)}

\* the range of Rebase over the Scopes map
RECURSIVE walkScopes(_, _, _, _, _, _, _, _)
walkScopes(heap, st, must, may, visited, old, mapUrl, rootUrl) ==
    (IF must = {} THEN {[k |-> "ok", heap |-> heap, st |-> st]} ELSE {})
    \cup UNION {UNION {IF r.k # "ok" THEN {r}
                       ELSE walkScopes(r.heap, r.st,
                                       (must \ {key}) \cap DOMAIN r.st,
                                       ((may \cup ((DOMAIN r.st) \ (DOMAIN st)))
                                           \ (visited \cup {key})) \cap DOMAIN r.st,
                                       visited \cup {key}, old, mapUrl, rootUrl) :
                       r \in rebaseScope(heap, st, key, old, mapUrl, rootUrl)} :
                key \in must \cup produced(may, visited)}

\* the body from the assignment of the new value on: newValue is the outcome of
\* rebase on the value; then the entry takes the entry of its old value, which
\* is deleted
setIntegrity(t, integrityKey, integrityValue, newValue) ==
    IF newValue.k = "panic" THEN [k |-> "panic", t |-> t]
    ELSE IF ~IsOk(newValue) THEN [k |-> newValue.k, t |-> Put(t, integrityKey, newValue.v)]
    ELSE IF integrityKey # integrityValue
    THEN [k |-> "ok",
          t |-> Del(Put(t, integrityKey, Get(Put(t, integrityKey, newValue.v), integrityValue)),
                    integrityValue)]
    ELSE [k |-> "ok", t |-> Put(t, integrityKey, newValue.v)]

\* the body from resolve on the value, whose outcome is resolvedIntegrityValue
rebaseValue(t, integrityKey, resolvedIntegrityValue, old) ==
    IF ~IsOk(resolvedIntegrityValue) THEN [k |-> resolvedIntegrityValue.k, t |-> t]
    ELSE setIntegrity(t, integrityKey, t[integrityKey],
                      rebase(resolvedIntegrityValue.v, old.mapUrl, old.rootUrl))

\* the body of the loop of Rebase over the integrity table, on one entry
rebaseIntegrity(t, integrityKey, old) ==
    rebaseValue(t, integrityKey, resolve(t[integrityKey], old.mapUrl, old.rootUrl), old)

\* the range of Rebase over the integrity table
RECURSIVE walkIntegrity(_, _, _, _, _)
walkIntegrity(t, must, may, visited, old) ==
    (IF must = {} THEN {[k |-> "ok", t |-> t]} ELSE {})
    \cup UNION {UNION {IF r.k # "ok" THEN {r}
                       ELSE walkIntegrity(r.t,
                                          (must \ {key}) \cap DOMAIN r.t,
                                          ((may \cup ((DOMAIN r.t) \ (DOMAIN t)))
                                              \ (visited \cup {key})) \cap DOMAIN r.t,
                                          visited \cup {key}, old) :
                       r \in {rebaseIntegrity(t, key, old)}} :
                key \in must \cup produced(may, visited)}

\* the root of a URL: u.ResolveReference(&url.URL{Path: "/"})
originRoot(u) == ResolveReference(u, MkUrl(<<>>, <<>>, <<>>, <<"/">>, FALSE))

\* the rootUrl Rebase works with when it is called with (mapUrl, rootUrl)
rebaseRoot(i, mapUrl, rootUrl) ==
    IF rootUrl = NilUrl /\ i.mapUrl # NilUrl
    THEN IF String(mapUrl) = String(i.mapUrl) THEN i.mapUrl
         ELSE IF i.rootUrl = NilUrl
                 \/ (mapUrl.Scheme # <<"h", "t", "t", "p", "s">> /\ mapUrl.Scheme # <<"h", "t", "t", "p">>)
         THEN NilUrl
         ELSE originRoot(mapUrl)
    ELSE rootUrl

\* the loops of Rebase, with the rootUrl it works with: the possible outcomes,
\* each with the heaps and the map as the call leaves them
rebaseTables(heap, sheap, i, mapUrl, rootUrl) ==
    LET out(k, h, sh, m) == [k |-> k, tabs |-> h, stabs |-> sh, m |-> m]
        imports == IF i.imports = NilMap
                   THEN {[k |-> "ok", heap |-> heap]}
                   ELSE {[k |-> w.k, heap |-> [heap EXCEPT ![i.imports] = w.t]] :
                         w \in walkTable(heap[i.imports], DOMAIN heap[i.imports], {}, {},
                                         i, mapUrl, rootUrl)}
        scopes(h) == IF i.scopes = NilMap
                     THEN {[k |-> "ok", heap |-> h, sheap |-> sheap]}
                     ELSE {[k |-> w.k, heap |-> w.heap, sheap |-> [sheap EXCEPT ![i.scopes] = w.st]] :
                           w \in walkScopes(h, sheap[i.scopes], DOMAIN sheap[i.scopes], {}, {},
                                            i, mapUrl, rootUrl)}
        integrity(h) == IF i.integrity = NilMap
                        THEN {[k |-> "ok", heap |-> h]}
                        ELSE {[k |-> w.k, heap |-> [h EXCEPT ![i.integrity] = w.t]] :
                              w \in walkIntegrity(h[i.integrity], DOMAIN h[i.integrity], {}, {}, i)}
    IN  UNION {IF a.k # "ok" THEN {out(a.k, a.heap, sheap, i)}
               ELSE UNION {IF b.k # "ok" THEN {out(b.k, b.heap, b.sheap, i)}
                           ELSE {IF c.k # "ok" THEN out(c.k, c.heap, b.sheap, i)
                                 ELSE out("ok", c.heap, b.sheap,
                                          [i EXCEPT !.mapUrl = mapUrl, !.rootUrl = rootUrl]) :
                                 c \in integrity(b.heap)} :
                           b \in scopes(a.heap)} :
               a \in imports}

\* A variant of Rebase that stores the rootUrl it is given before it tests the
\* mapUrl.
RebaseStoresRootFirst(heap, sheap, i, mapUrl, rootUrl) ==
    IF mapUrl = NilUrl
    THEN {[k |-> "InvalidArgument", tabs |-> heap, stabs |-> sheap,
           m |-> [i EXCEPT !.rootUrl = rootUrl]]}
    ELSE rebaseTables(heap, sheap, i, mapUrl, rebaseRoot(i, mapUrl, rootUrl))

\* importMap.Rebase on the map i of the heaps
Rebase(heap, sheap, i, mapUrl, rootUrl) ==
    IF mapUrl = NilUrl THEN {[k |-> "InvalidArgument", tabs |-> heap, stabs |-> sheap, m |-> i]}
    ELSE rebaseTables(heap, sheap, i, mapUrl, rebaseRoot(i, mapUrl, rootUrl))

---------------------------------------------------------------------------
(* The strings of the model                                                *)

\* a declaring location given without a path, as in TestResolveImportMap
sBaseS == <<"h", "t", "t", "p", ":", "/", "/", "s">>

sRootS == <<"h", "t", "t", "p", ":", "/", "/", "s", "/">>

\* another origin
sBaseT == <<"h", "t", "t", "p", ":", "/", "/", "t", "/">>

sParentTX == <<"h", "t", "t", "p", ":", "/", "/", "t", "/", "x">>

\* a scope of the first origin
sScopeSA == <<"h", "t", "t", "p", ":", "/", "/", "s", "/", "a", "/">>

sParentSAB == <<"h", "t", "t", "p", ":", "/", "/", "s", "/", "a", "/", "b">>

\* the working directory New falls back to: file://<cwd>/
sCwd == <<"f", "i", "l", "e", ":", "/", "/", "/", "w", "/">>

\* plain names
sTest == <<"t", "e", "s", "t">>

sNope == <<"n", "o", "p", "e">>

sDep == <<"d", "e", "p">>

sLib == <<"l", "i", "b">>

\* prefix keys
sLibSlash == <<"l", "i", "b", "/">>

sLibX == <<"l", "i", "b", "/", "x">>

\* root-relative and relative paths
sU == <<"/", "u">>

sM == <<"/", "m">>

sN == <<"/", "n">>

sK == <<"/", "k">>

sJ == <<"/", "j">>

sD == <<"/", "d">>

sDot == <<".", "/">>

sDotQ == <<".", "/", "q">>

\* absolute locations
sSU == <<"h", "t", "t", "p", ":", "/", "/", "s", "/", "u">>

sTU == <<"h", "t", "t", "p", ":", "/", "/", "t", "/", "u">>

\* an integrity hash
sSha == <<"s", "h", "a">>

---------------------------------------------------------------------------
(* The state: the heaps, the map m the session works on, a second map o    *)
(* that is the argument of Extend, the last call with its outcome, and the *)
(* number of calls that changed a map.                                     *)

VARIABLES tabs, stabs, m, o, last, ops

vars == <<tabs, stabs, m, o, last, ops>>

\* the calls that change a map in one run
MaxOps == 2

\* a table of a configuration: absent (a nil map), or given
Absent == [nil |-> TRUE, t |-> EmptyTable]

Given(t) == [nil |-> FALSE, t |-> t]

\* Data: the tables of a configuration or of a persisted document
Data(imports, scopes, integrity) == [Imports |-> imports, Scopes |-> scopes, Integrity |-> integrity]

\* New: the map of a configuration, its tables allocated on the heaps; MapUrl
\* and RootUrl are the options, NilUrl when not given
New(heap, sheap, data, MapUrl, RootUrl) ==
    LET mapUrl == IF MapUrl = NilUrl THEN Parse(sCwd).url ELSE MapUrl
        rootUrl == IF RootUrl = NilUrl
                      /\ (mapUrl.Scheme = <<"h", "t", "t", "p">> \/ mapUrl.Scheme = <<"h", "t", "t", "p", "s">>)
                   THEN originRoot(mapUrl) ELSE RootUrl
        scopeKeys == CHOOSE ord \in Orders(DOMAIN data.Scopes.t) : TRUE
        heap1 == heap \o [n \in 1..Len(scopeKeys) |-> data.Scopes.t[scopeKeys[n]]]
        st == [sk \in DOMAIN data.Scopes.t |->
                  Len(heap) + (CHOOSE n \in 1..Len(scopeKeys) : scopeKeys[n] = sk)]
        heap2 == IF data.Imports.nil THEN heap1 ELSE Append(heap1, data.Imports.t)
        heap3 == IF data.Integrity.nil THEN heap2 ELSE Append(heap2, data.Integrity.t)
    IN  [tabs |-> heap3,
         stabs |-> IF data.Scopes.nil THEN sheap ELSE Append(sheap, st),
         map |-> [imports |-> IF data.Imports.nil THEN NilMap ELSE Len(heap2),
                  scopes |-> IF data.Scopes.nil THEN NilMap ELSE Len(sheap) + 1,
                  integrity |-> IF data.Integrity.nil THEN NilMap ELSE Len(heap3),
                  mapUrl |-> mapUrl,
                  rootUrl |-> rootUrl]]

\* the tables of a map, by value: what GetImports, GetScopes and GetIntegrity show
Imports(heap, i) == TableAt(heap, i.imports)

Scopes(heap, sheap, i) ==
    [sk \in DOMAIN TableAt(sheap, i.scopes) |-> TableAt(heap, sheap[i.scopes][sk])]

Integrity(heap, i) == TableAt(heap, i.integrity)

Tables(heap, sheap, i) ==
    [imports |-> Imports(heap, i), scopes |-> Scopes(heap, sheap, i),
     integrity |-> Integrity(heap, i)]

---------------------------------------------------------------------------
(* Mutation and merge                                                      *)

\* the outcome of a call that changes a map: the heaps and the map as it leaves them
Out(k, heap, sheap, i) == [k |-> k, tabs |-> heap, stabs |-> sheap, m |-> i]

\* for k, v := range b { a[k] = v }
Merge(a, b) == [x \in (DOMAIN a) \cup (DOMAIN b) |-> IF x \in DOMAIN b THEN b[x] ELSE a[x]]

\* importMap.Set: an assignment to an entry of a nil map aborts
Set(heap, sheap, i, name, target) ==
    IF i.imports = NilMap THEN Out("panic", heap, sheap, i)
    ELSE Out("ok", [heap EXCEPT ![i.imports] = Put(@, name, target)], sheap, i)

\* importMap.SetWithParent: the scope table is made when the scope has none
SetWithParent(heap, sheap, i, name, target, parent) ==
    IF i.scopes = NilMap THEN Out("panic", heap, sheap, i)
    ELSE IF parent \in DOMAIN sheap[i.scopes]
    THEN Out("ok", [heap EXCEPT ![sheap[i.scopes][parent]] = Put(@, name, target)], sheap, i)
    ELSE Out("ok", Append(heap, Put(EmptyTable, name, target)),
             [sheap EXCEPT ![i.scopes] = Put(@, parent, Len(heap) + 1)], i)

\* the inner loop of the copy of the scopes: the entries of the scopes of keys, in
\* turn, are copied into the receiver's table of the same scope
RECURSIVE copyScopes(_, _, _, _)
copyScopes(heap, st, otherScopes, keys) ==
    IF keys = <<>> THEN heap
    ELSE copyScopes([heap EXCEPT ![st[Head(keys)]] = Merge(@, heap[otherScopes[Head(keys)]])],
                    st, otherScopes, Tail(keys))

\* the copy of the scopes in Extend without overrideScopes: a table is made for
\* each scope the receiver lacks, then the entries are copied key by key
mergeScopes(heap, sheap, i, otherScopes) ==
    LET fresh == CHOOSE ord \in Orders((DOMAIN otherScopes) \ (DOMAIN sheap[i.scopes])) : TRUE
        st == [sk \in (DOMAIN sheap[i.scopes]) \cup (DOMAIN otherScopes) |->
                  IF sk \in DOMAIN sheap[i.scopes] THEN sheap[i.scopes][sk]
                  ELSE Len(heap) + (CHOOSE n \in 1..Len(fresh) : fresh[n] = sk)]
        heap1 == heap \o [n \in 1..Len(fresh) |-> EmptyTable]
        keys == CHOOSE ord \in Orders(DOMAIN otherScopes) : TRUE
    IN  [tabs |-> copyScopes(heap1, st, otherScopes, keys),
         stabs |-> [sheap EXCEPT ![i.scopes] = st]]

\* importMap.Extend: the copies, then Rebase(i.mapUrl, nil)
Extend(heap, sheap, i, other, overrideScopes) ==
    LET otherImports == TableAt(heap, other.imports)
        otherScopes == TableAt(sheap, other.scopes)
        otherIntegrity == TableAt(heap, other.integrity)
        heap1 == IF i.imports = NilMap THEN heap
                 ELSE [heap EXCEPT ![i.imports] = Merge(@, otherImports)]
        copied == IF overrideScopes
                  THEN [tabs |-> heap1,
                        stabs |-> IF i.scopes = NilMap THEN sheap
                                  ELSE [sheap EXCEPT ![i.scopes] = Merge(@, otherScopes)]]
                  ELSE IF other.scopes # NilMap /\ i.scopes # NilMap
                  THEN mergeScopes(heap1, sheap, i, otherScopes)
                  ELSE [tabs |-> heap1, stabs |-> sheap]
        heap3 == IF i.integrity = NilMap THEN copied.tabs
                 ELSE [copied.tabs EXCEPT ![i.integrity] = Merge(@, otherIntegrity)]
    IN  IF i.imports = NilMap /\ DOMAIN otherImports # {} THEN {Out("panic", heap, sheap, i)}
        ELSE IF i.scopes = NilMap /\ DOMAIN otherScopes # {} THEN {Out("panic", heap1, sheap, i)}
        ELSE IF i.integrity = NilMap /\ DOMAIN otherIntegrity # {}
             THEN {Out("panic", copied.tabs, copied.stabs, i)}
        ELSE Rebase(heap3, copied.stabs, i, i.mapUrl, NilUrl)

---------------------------------------------------------------------------
(* The session: one map, built from a configuration, and the calls on it.   *)
(* A resolution reads the map and leaves it as it is, so the calls after   *)
(* one reach the states they reach without it: a run of the model makes    *)
(* its changes first and ends with one resolution, which last records.     *)

\* the tables of TestResolveImportMap, with an integrity entry
DataTest ==
    Data(Given(sTest :> sM @@ sTU :> sN), Given(sBaseT :> (sU :> sK)), Given(sM :> sSha))

\* the table of TestResolveLocalFilePaths; scopes and integrity are absent
DataLocal == Data(Given(sLibSlash :> sDot), Absent, Absent)

\* the tables of the map given to Extend
DataOther ==
    Data(Given(sDep :> sD), Given(sBaseT :> (sTest :> sJ) @@ sScopeSA :> (sDep :> sD)),
         Given(EmptyTable))

\* the configurations the session starts from: the tables and the MapUrl option
Configs == {[data |-> DataTest, MapUrl |-> Parse(sBaseS).url],
            [data |-> DataLocal, MapUrl |-> NilUrl]}

\* the inputs of the calls
SetNames == {sU, sLibSlash, sSU}

SetTargets == {sN}

ScopeNames == {sTest, sSU}

ScopeTargets == {sJ}

ScopeParents == {sBaseT, sParentTX, sScopeSA}

\* (newDeclaring, newRoot) of Rebase
RebaseArgs == {<<Parse(sBaseT).url, NilUrl>>,
               <<Parse(sBaseS).url, Parse(sRootS).url>>,
               <<Parse(sCwd).url, NilUrl>>,
               <<NilUrl, NilUrl>>}

Specifiers == {sTest, sNope, sLib, sLibX, sU, sSU, sTU, sDotQ}

Parents == {Parse(sBaseS).url, Parse(sBaseT).url, Parse(sParentTX).url, Parse(sParentSAB).url,
            Parse(sCwd).url}

NoCall == [op |-> "none"]

Snapshot == [tabs |-> tabs, stabs |-> stabs, m |-> m, o |-> o]

\* the record of a call: its outcome, the state before it, and the call before it
Call(op, args, res) ==
    [op |-> op, args |-> args, res |-> res, pre |-> Snapshot,
     prev |-> IF last.op = "none" THEN NoCall
              ELSE [op |-> last.op, args |-> last.args, res |-> last.res, pre |-> last.pre]]

Init ==
    \E c \in Configs :
        LET a == New(<<>>, <<>>, c.data, c.MapUrl, NilUrl)
            b == New(a.tabs, a.stabs, DataOther, Parse(sBaseT).url, NilUrl)
        IN  /\ tabs = b.tabs
            /\ stabs = b.stabs
            /\ m = a.map
            /\ o = b.map
            /\ last = NoCall
            /\ ops = 0

\* a call that changes the map m ends with outcome r
Changed(op, args, r) ==
    /\ tabs' = r.tabs
    /\ stabs' = r.stabs
    /\ m' = r.m
    /\ last' = Call(op, args, [k |-> r.k])
    /\ ops' = ops + 1
    /\ UNCHANGED o

DoSet ==
    /\ last.op # "ResolveWithParent"
    /\ ops < MaxOps
    /\ \E name \in SetNames, target \in SetTargets :
           Changed("Set", <<name, target>>, Set(tabs, stabs, m, name, target))

DoSetWithParent ==
    /\ last.op # "ResolveWithParent"
    /\ ops < MaxOps
    /\ \E name \in ScopeNames, target \in ScopeTargets, parent \in ScopeParents :
           Changed("SetWithParent", <<name, target, parent>>,
                   SetWithParent(tabs, stabs, m, name, target, parent))

DoRebase ==
    /\ last.op # "ResolveWithParent"
    /\ ops < MaxOps
    /\ \E a \in RebaseArgs :
           \E r \in Rebase(tabs, stabs, m, a[1], a[2]) : Changed("Rebase", a, r)

DoExtend ==
    /\ last.op # "ResolveWithParent"
    /\ ops < MaxOps
    /\ \E overrideScopes \in BOOLEAN :
           \E r \in Extend(tabs, stabs, m, o, overrideScopes) :
               Changed("Extend", <<overrideScopes>>, r)

DoResolve ==
    /\ last.op # "ResolveWithParent"
    /\ \E specifier \in Specifiers, parentUrl \in Parents :
           \E r \in ResolveWithParent(tabs, stabs, m, specifier, parentUrl) :
               last' = Call("ResolveWithParent", <<specifier, parentUrl>>, r)
    /\ UNCHANGED <<tabs, stabs, m, o, ops>>

Next == DoSet \/ DoSetWithParent \/ DoRebase \/ DoExtend \/ DoResolve

Spec == Init /\ [][Next]_vars

---------------------------------------------------------------------------
(* getMapMatch on its own: a table whose keys are drawn from MatchKeys, and *)
(* calls of getMapMatch on it with the candidates of MatchCandidates.       *)

\* the keys of a table of this specification
MaxKeys == 3

MatchKeys == {<<"a">>, <<"a", "/">>, <<"a", "*">>, <<"a", "/", "b">>, <<"a", "/", "b", "/">>, <<"x", "/">>}

MatchCandidates == {<<"a">>, <<"a", "/", "b">>, <<"a", "/", "b", "/", "c">>, <<"x">>, <<"x", "/", "c">>, <<"b">>}

MatchTables ==
    {[k \in K |-> sM] : K \in {S \in SUBSET MatchKeys : Cardinality(S) <= MaxKeys}}

InitMatch ==
    \E t \in MatchTables :
        /\ tabs = <<t>>
        /\ stabs = <<>>
        /\ m = [imports |-> 1, scopes |-> NilMap, integrity |-> NilMap,
                mapUrl |-> Parse(sCwd).url, rootUrl |-> NilUrl]
        /\ o = m
        /\ last = NoCall
        /\ ops = 0

\* a call getMapMatch(specifier, i.imports)
DoMatch ==
    /\ \E specifier \in MatchCandidates :
           \E mapMatch \in getMapMatch(specifier, tabs[m.imports]) :
               last' = [op |-> "getMapMatch", args |-> <<specifier>>, res |-> mapMatch]
    /\ UNCHANGED <<tabs, stabs, m, o, ops>>

SpecMatch == InitMatch /\ [][DoMatch]_vars

---------------------------------------------------------------------------
(* resolve and rebase on their own: a pair (mapUrl, rootUrl), and for an    *)
(* input its canonical form under the pair, the absolute form of that, and  *)
(* the canonical form of the absolute form.                                *)

sTestA == <<"f", "i", "l", "e", ":", "/", "/", "/", "t", "e", "s", "t", "/", "a", "/">>

\* the rootUrl of TestRebaseUrlNested
sTestAB == <<"f", "i", "l", "e", ":", "/", "/", "/", "t", "e", "s", "t", "/", "a", "/", "b", "/">>

UrlPairs == {<<Parse(sBaseS).url, Parse(sRootS).url>>,
             <<Parse(sBaseT).url, Parse(sBaseT).url>>,
             <<Parse(sParentSAB).url, Parse(sRootS).url>>,
             <<Parse(sTestA).url, Parse(sTestA).url>>,
             <<Parse(sTestA).url, Parse(sTestAB).url>>,
             <<Parse(sRootS).url, NilUrl>>,
             <<Parse(sCwd).url, NilUrl>>}

UrlInputs == {sBaseS, sRootS, sSU, sTU, sParentSAB, sScopeSA, sCwd, sTestA, sU, sM, sDot, sDotQ,
              sTest, sLibSlash, sLibX,
              <<"h", "t", "t", "p", ":", "/", "/", "s", "/", "/", "u">>, <<"h", "t", "t", "p", ":", "/", "/", "s", "/", "a", "/", ".", ".", "/", "u">>, <<"h", "t", "t", "p", ":", "/", "/", "s", "/", "a", "/", "b", "/", "c">>, <<"f", "i", "l", "e", ":", "/", "/", "/", "t", "e", "s", "t", "/">>,
              <<"f", "i", "l", "e", ":", "/", "/", "/", "t", "e", "s", "t", "/", "a", "/", "x">>, <<"f", "i", "l", "e", ":", "/", "/", "/", "w", "/", "q">>, <<".", ".", "/", "q">>, <<"/", "/", "s", "/", "u">>, <<"/", "a", "/">>, <<"a", "/", "b">>}

InitUrl ==
    \E pair \in UrlPairs :
        /\ tabs = <<>>
        /\ stabs = <<>>
        /\ m = [imports |-> NilMap, scopes |-> NilMap, integrity |-> NilMap,
                mapUrl |-> pair[1], rootUrl |-> pair[2]]
        /\ o = m
        /\ last = NoCall
        /\ ops = 0

\* rebase on an input, then resolve on its result, then rebase on that
DoRoundTrip ==
    /\ \E inputUrl \in UrlInputs :
           \E u \in {rebase(inputUrl, m.mapUrl, m.rootUrl)} :
               /\ IsOk(u)
               /\ \E r \in {resolve(u.v, m.mapUrl, m.rootUrl)} :
                      last' = [op |-> "roundTrip", args |-> <<inputUrl>>,
                               res |-> [u |-> u.v, resolved |-> r,
                                        back |-> IF IsOk(r) THEN rebase(r.v, m.mapUrl, m.rootUrl)
                                                 ELSE r]]
    /\ UNCHANGED <<tabs, stabs, m, o, ops>>

SpecUrl == InitUrl /\ [][DoRoundTrip]_vars

---------------------------------------------------------------------------
(* The integrity table and Replace: the calls on the integrity entries of   *)
(* the map, and Replace. A read leaves the map as it is and ends the run.   *)

sSM == <<"h", "t", "t", "p", ":", "/", "/", "s", "/", "m">>

sEst == <<"e", "s", "t">>

sSig == <<"s", "i", "g">>

\* importMap.GetIntegrityValue on the map i of the heap: a read of a nil map
\* finds nothing; targetRebased[2:] of a string shorter than 2 aborts
GetIntegrityValue(heap, i, target) ==
    LET found(table, targetRebased) ==
            IF ~IsOk(targetRebased) THEN Err(targetRebased.k)
            ELSE IF targetRebased.v \in DOMAIN table THEN Ok(table[targetRebased.v])
            ELSE IF Len(targetRebased.v) < 2 THEN Panic
            ELSE IF From(targetRebased.v, 2) \in DOMAIN table
            THEN Ok(table[From(targetRebased.v, 2)])
            ELSE [k |-> "IntegrityNotFound",
                  v |-> <<"i", "n", "t", "e", "g", "r", "i", "t", "y", " ",
                          "n", "o", "t", " ", "f", "o", "u", "n", "d">>]
    IN  found(TableAt(heap, i.integrity), rebase(target, i.mapUrl, i.rootUrl))

\* importMap.SetIntegrityValue: the entry is stored under the target as given,
\* then the entry under the rebased target, when it is another one, is deleted
SetIntegrityValue(heap, sheap, i, target, integrity) ==
    LET stored(table, targetRebased) ==
            LET t1 == Put(table, target, integrity)
                t2 == IF IsOk(targetRebased) /\ targetRebased.v # target
                         /\ targetRebased.v \in DOMAIN t1
                      THEN Del(t1, targetRebased.v) ELSE t1
            IN  IF ~IsOk(targetRebased) THEN [k |-> targetRebased.k, t |-> t1]
                ELSE IF /\ HasPrefix(targetRebased.v, <<".", "/">>)
                        /\ target # From(targetRebased.v, 2)
                        /\ From(targetRebased.v, 2) \in DOMAIN t2
                        /\ targetRebased.v \in DOMAIN t2
                THEN [k |-> "ok", t |-> Del(t2, targetRebased.v)]
                ELSE [k |-> "ok", t |-> t2]
        done(r) == Out(r.k, [heap EXCEPT ![i.integrity] = r.t], sheap, i)
    IN  IF i.integrity = NilMap THEN Out("panic", heap, sheap, i)
        ELSE done(stored(heap[i.integrity], rebase(target, i.mapUrl, i.rootUrl)))

\* importMap.Replace: not implemented, it returns nil and changes nothing; self
\* says whether the call returns the map itself
Replace(heap, sheap, i, url, newUrl) ==
    [k |-> "ok", tabs |-> heap, stabs |-> sheap, m |-> i, self |-> FALSE]

IntegrityTargets == {sM, sSM, sRootS, sTest, sEst}

IntegrityValues == {sSha, sSig}

\* (url, newUrl) of Replace
ReplaceArgs == {<<Parse(sM).url, Parse(sN).url>>, <<Parse(sRootS).url, Parse(sBaseT).url>>}

DoSetIntegrityValue ==
    /\ last.op # "GetIntegrityValue"
    /\ ops < MaxOps
    /\ \E target \in IntegrityTargets, integrity \in IntegrityValues :
           Changed("SetIntegrityValue", <<target, integrity>>,
                   SetIntegrityValue(tabs, stabs, m, target, integrity))

DoGetIntegrityValue ==
    /\ last.op # "GetIntegrityValue"
    /\ \E target \in IntegrityTargets :
           last' = Call("GetIntegrityValue", <<target>>, GetIntegrityValue(tabs, m, target))
    /\ UNCHANGED <<tabs, stabs, m, o, ops>>

DoReplace ==
    /\ last.op # "GetIntegrityValue"
    /\ ops < MaxOps
    /\ \E a \in ReplaceArgs :
           \E r \in {Replace(tabs, stabs, m, a[1], a[2])} :
               /\ tabs' = r.tabs
               /\ stabs' = r.stabs
               /\ m' = r.m
               /\ last' = Call("Replace", a, [k |-> r.k, self |-> r.self])
               /\ ops' = ops + 1
               /\ UNCHANGED o

NextTables == DoSetIntegrityValue \/ DoGetIntegrityValue \/ DoReplace

SpecTables == Init /\ [][NextTables]_vars

---------------------------------------------------------------------------
(* Rebase step by step: importMap has no lock, so a resolution on another   *)
(* goroutine can run between two iterations of the loops of Rebase. While   *)
(* Rebase runs, last holds its position: the loop it is in (at.phase), the  *)
(* entries its range has still to produce (at.must), the ones made during   *)
(* the range (at.may), the ones produced (at.visited) and the rootUrl it    *)
(* works with. A resolution ends the run.                                  *)

\* the end of Rebase: i.mapUrl = mapUrl; i.rootUrl = rootUrl
rebaseSwap(i, mapUrl, rootUrl) == [i EXCEPT !.mapUrl = mapUrl, !.rootUrl = rootUrl]

\* a range that produces no entry of the table
rangeOverNothing(phase, table, rootUrl) ==
    [phase |-> phase, must |-> {}, may |-> {}, visited |-> {}, rootUrl |-> rootUrl]

\* the position of a range that starts over the keys of table
rangeOver(phase, table, rootUrl) ==
    [phase |-> phase, must |-> DOMAIN table, may |-> {}, visited |-> {}, rootUrl |-> rootUrl]

\* the position after the body ran on key and left the table with the keys after
rangeAfter(at, key, before, after) ==
    [at EXCEPT !.must = (@ \ {key}) \cap after,
               !.may = ((at.may \cup (after \ before)) \ (at.visited \cup {key})) \cap after,
               !.visited = @ \cup {key}]

\* last, for a Rebase that is at the position at, and for one that returned k
rebaseRunning(at) ==
    [op |-> "Rebase", args |-> last.args, res |-> [k |-> "running"], pre |-> last.pre,
     prev |-> NoCall, at |-> at]

rebaseReturned(k) ==
    [op |-> "Rebase", args |-> last.args, res |-> [k |-> k], pre |-> last.pre,
     prev |-> NoCall, at |-> rangeOver("done", EmptyTable, NilUrl)]

\* the specifiers and parents of the resolutions that run beside a Rebase
RaceSpecifiers == {sTest, sU, sTU, sLibX}

RaceParents == {Parse(sBaseS).url, Parse(sParentTX).url}

\* a read of a map while another goroutine writes to it: the runtime may stop
\* the program (fatal error: concurrent map read and map write)
Fatal == Traced([k |-> "fatal", v |-> <<>>], <<>>, "early", <<>>)

\* Rebase is called: the test of mapUrl and the choice of the rootUrl
RebaseBegin ==
    /\ last.op = "none"
    /\ \E a \in RebaseArgs :
           last' = IF a[1] = NilUrl
                   THEN [op |-> "Rebase", args |-> a, res |-> [k |-> "InvalidArgument"],
                         pre |-> Snapshot, prev |-> NoCall,
                         at |-> rangeOver("done", EmptyTable, NilUrl)]
                   ELSE [op |-> "Rebase", args |-> a, res |-> [k |-> "running"],
                         pre |-> Snapshot, prev |-> NoCall,
                         at |-> rangeOver("imports", TableAt(tabs, m.imports),
                                          rebaseRoot(m, a[1], a[2]))]
    /\ UNCHANGED <<tabs, stabs, m, o, ops>>

\* one iteration of the loop over i.imports
RebaseImportsStep ==
    /\ last.op = "Rebase" /\ last.res.k = "running" /\ last.at.phase = "imports"
    /\ \E key \in last.at.must \cup produced(last.at.may, last.at.visited) :
           \E r \in {rebaseEntry(tabs[m.imports], key, m, last.args[1], last.at.rootUrl)} :
               /\ tabs' = [tabs EXCEPT ![m.imports] = r.t]
               /\ last' = IF r.k # "ok" THEN rebaseReturned(r.k)
                          ELSE rebaseRunning(rangeAfter(last.at, key, DOMAIN tabs[m.imports],
                                                        DOMAIN r.t))
    /\ UNCHANGED <<stabs, m, o, ops>>

\* one iteration of the loop over i.scopes
RebaseScopesStep ==
    /\ last.op = "Rebase" /\ last.res.k = "running" /\ last.at.phase = "scopes"
    /\ \E key \in last.at.must \cup produced(last.at.may, last.at.visited) :
           \E r \in rebaseScope(tabs, stabs[m.scopes], key, m, last.args[1], last.at.rootUrl) :
               /\ tabs' = r.heap
               /\ stabs' = [stabs EXCEPT ![m.scopes] = r.st]
               /\ last' = IF r.k # "ok" THEN rebaseReturned(r.k)
                          ELSE rebaseRunning(rangeAfter(last.at, key, DOMAIN stabs[m.scopes],
                                                        DOMAIN r.st))
    /\ UNCHANGED <<m, o, ops>>

\* one iteration of the loop over i.integrity
RebaseIntegrityStep ==
    /\ last.op = "Rebase" /\ last.res.k = "running" /\ last.at.phase = "integrity"
    /\ \E key \in last.at.must \cup produced(last.at.may, last.at.visited) :
           \E r \in {rebaseIntegrity(tabs[m.integrity], key, m)} :
               /\ tabs' = [tabs EXCEPT ![m.integrity] = r.t]
               /\ last' = IF r.k # "ok" THEN rebaseReturned(r.k)
                          ELSE rebaseRunning(rangeAfter(last.at, key, DOMAIN tabs[m.integrity],
                                                        DOMAIN r.t))
    /\ UNCHANGED <<stabs, m, o, ops>>

\* a range ends once it has produced the entries it had to; the next loop starts
RebaseNextLoop ==
    /\ last.op = "Rebase" /\ last.res.k = "running" /\ last.at.must = {}
    /\ \/ /\ last.at.phase = "imports"
          /\ last' = rebaseRunning(rangeOver("scopes", TableAt(stabs, m.scopes), last.at.rootUrl))
       \/ /\ last.at.phase = "scopes"
          /\ last' = rebaseRunning(rangeOver("integrity", TableAt(tabs, m.integrity),
                                             last.at.rootUrl))
       \/ /\ last.at.phase = "integrity"
          /\ last' = rebaseRunning(rangeOver("swap", EmptyTable, last.at.rootUrl))
    /\ UNCHANGED <<tabs, stabs, m, o, ops>>

\* the end of Rebase: the pair is stored and nil is returned
RebaseSwap ==
    /\ last.op = "Rebase" /\ last.res.k = "running" /\ last.at.phase = "swap"
    /\ m' = rebaseSwap(m, last.args[1], last.at.rootUrl)
    /\ last' = rebaseReturned("ok")
    /\ UNCHANGED <<tabs, stabs, o, ops>>

\* a resolution on another goroutine, before, between or after the steps of Rebase
RaceResolve ==
    /\ last.op = "Rebase"
    /\ \E specifier \in RaceSpecifiers, parentUrl \in RaceParents :
           \E r \in ResolveWithParent(tabs, stabs, m, specifier, parentUrl)
                        \cup (IF last.res.k = "running" THEN {Fatal} ELSE {}) :
               last' = [op |-> "ResolveWithParent", args |-> <<specifier, parentUrl>>,
                        res |-> r, pre |-> Snapshot, prev |-> last]
    /\ UNCHANGED <<tabs, stabs, m, o, ops>>

NextRace ==
    \/ RebaseBegin
    \/ RebaseImportsStep
    \/ RebaseScopesStep
    \/ RebaseIntegrityStep
    \/ RebaseNextLoop
    \/ RebaseSwap
    \/ RaceResolve

SpecRace == Init /\ [][NextRace]_vars

---------------------------------------------------------------------------
(* Clone: the map m and its clone, which takes the place of o, and the      *)
(* calls that change one of the two. The first argument last records is    *)
(* the map the call was made on, "m" or "c".                               *)

\* importMap.Clone: a new importMap with the fields of i; the fields imports,
\* scopes and integrity are Go maps, so the clone holds the tables of i
Clone(i) ==
    [imports |-> i.imports, scopes |-> i.scopes, integrity |-> i.integrity,
     mapUrl |-> i.mapUrl, rootUrl |-> i.rootUrl]

\* the map a call is made on, and the other one of the two
receiver(who) == IF who = "m" THEN m ELSE o

bystander(who) == IF who = "m" THEN o ELSE m

\* a call on the map who, one that changes it, ends with outcome r
CloneChanged(who, op, args, r) ==
    /\ tabs' = r.tabs
    /\ stabs' = r.stabs
    /\ m' = IF who = "m" THEN r.m ELSE m
    /\ o' = IF who = "m" THEN o ELSE r.m
    /\ last' = Call(op, <<who>> \o args, [k |-> r.k])
    /\ ops' = ops + 1

\* c := m.Clone()
DoClone ==
    /\ last.op = "none"
    /\ o' = Clone(m)
    /\ last' = Call("Clone", <<"m">>, [k |-> "ok"])
    /\ UNCHANGED <<tabs, stabs, m, ops>>

CloneSet ==
    /\ last.op # "none"
    /\ ops < MaxOps
    /\ \E who \in {"m", "c"}, name \in SetNames, target \in SetTargets :
           CloneChanged(who, "Set", <<name, target>>, Set(tabs, stabs, receiver(who), name, target))

CloneSetWithParent ==
    /\ last.op # "none"
    /\ ops < MaxOps
    /\ \E who \in {"m", "c"}, name \in ScopeNames, target \in ScopeTargets, parent \in ScopeParents :
           CloneChanged(who, "SetWithParent", <<name, target, parent>>,
                        SetWithParent(tabs, stabs, receiver(who), name, target, parent))

CloneSetIntegrityValue ==
    /\ last.op # "none"
    /\ ops < MaxOps
    /\ \E who \in {"m", "c"}, target \in IntegrityTargets, integrity \in IntegrityValues :
           CloneChanged(who, "SetIntegrityValue", <<target, integrity>>,
                        SetIntegrityValue(tabs, stabs, receiver(who), target, integrity))

\* an Extend of one of the two with the other
CloneExtend ==
    /\ last.op # "none"
    /\ ops < MaxOps
    /\ \E who \in {"m", "c"}, overrideScopes \in BOOLEAN :
           \E r \in Extend(tabs, stabs, receiver(who), bystander(who), overrideScopes) :
               CloneChanged(who, "Extend", <<overrideScopes>>, r)

CloneRebase ==
    /\ last.op # "none"
    /\ ops < MaxOps
    /\ \E who \in {"m", "c"}, a \in RebaseArgs :
           \E r \in Rebase(tabs, stabs, receiver(who), a[1], a[2]) :
               CloneChanged(who, "Rebase", a, r)

NextClone ==
    \/ DoClone
    \/ CloneSet
    \/ CloneSetWithParent
    \/ CloneSetIntegrityValue
    \/ CloneExtend
    \/ CloneRebase

SpecClone == Init /\ [][NextClone]_vars

---------------------------------------------------------------------------
(* The properties                                                          *)

\* C1: when the table has the candidate itself as a key, getMapMatch selects
\* that key, whatever prefix keys of the candidate the table also has.
C1_ExactKeyWins ==
    (last.op = "getMapMatch" /\ last.args[1] \in DOMAIN tabs[m.imports])
        => last.res = last.args[1]

\* an exact key was selected against a longer and a shorter prefix key of the candidate
C1_Witness ==
    /\ last.op = "getMapMatch"
    /\ last.args[1] \in DOMAIN tabs[m.imports]
    /\ last.res = last.args[1]
    /\ \E k1, k2 \in DOMAIN tabs[m.imports] :
           /\ HasSuffix(k1, <<"/">>) /\ HasPrefix(last.args[1], To(k1, Len(k1) - 1))
           /\ HasSuffix(k2, <<"/">>) /\ HasPrefix(last.args[1], To(k2, Len(k2) - 1))
           /\ Len(k1) > Len(last.args[1])
           /\ Len(k2) < Len(last.args[1])

\* C2: when the table has no key equal to the candidate, getMapMatch selects a
\* longest one of the keys that end in / or * and whose form without the last
\* character is a prefix of the candidate, and reports no match ("") when there
\* is no such key.
C2_LongestPrefixKey ==
    (last.op = "getMapMatch" /\ last.args[1] \notin DOMAIN tabs[m.imports]) =>
        LET prefixKeys == {k \in DOMAIN tabs[m.imports] :
                              /\ HasSuffix(k, <<"/">>) \/ HasSuffix(k, <<"*">>)
                              /\ HasPrefix(last.args[1], To(k, Len(k) - 1))}
        IN  IF prefixKeys = {} THEN last.res = <<>>
            ELSE /\ last.res \in prefixKeys
                 /\ \A k \in prefixKeys : Len(k) <= Len(last.res)

\* the longest of two prefix keys of different lengths was selected
C2_Witness ==
    /\ last.op = "getMapMatch"
    /\ last.args[1] \notin DOMAIN tabs[m.imports]
    /\ last.res # <<>>
    /\ \E k \in DOMAIN tabs[m.imports] :
           /\ HasSuffix(k, <<"/">>)
           /\ HasPrefix(last.args[1], To(k, Len(k) - 1))
           /\ Len(k) < Len(last.res)

\* C3: the list of scope matches ResolveWithParent builds holds, once each,
\* exactly the scope keys whose absolute location under (mapUrl, rootUrl) equals
\* the canonical parent location, or ends in / and is a prefix of it.
C3_ScopeMatchSet ==
    (last.op = "ResolveWithParent" /\ last.res.via.from # "early") =>
        LET parentUrlRaw == resolve(String(last.args[2]), m.mapUrl, m.rootUrl).v
            under == {sk \in DOMAIN TableAt(stabs, m.scopes) :
                         \E loc \in {resolve(sk, m.mapUrl, m.rootUrl).v} :
                             \/ loc = parentUrlRaw
                             \/ HasSuffix(loc, <<"/">>) /\ HasPrefix(parentUrlRaw, loc)}
        IN  /\ {last.res.sm[n][1] : n \in 1..Len(last.res.sm)} = under
            /\ Len(last.res.sm) = Cardinality(under)

\* two scopes matched, one by the equality of the locations, and a third did not
C3_Witness ==
    /\ last.op = "ResolveWithParent"
    /\ last.res.via.from # "early"
    /\ Len(last.res.sm) = 2
    /\ \E n \in 1..2 : ~HasSuffix(last.res.sm[n][2], <<"/">>)
    /\ \E n \in 1..2 : HasSuffix(last.res.sm[n][2], <<"/">>)
    /\ Cardinality(DOMAIN TableAt(stabs, m.scopes)) = 3

\* C4: when no table yields a match, ResolveWithParent returns for a specifier
\* that is not plain its absolute form against the parent, and for a plain one
\* an UnresolvedSpecifier error whose message holds the specifier and the parent.
C4_PassThrough ==
    (last.op = "ResolveWithParent" /\ last.res.via.from = "none") =>
        IF isPlain(last.args[1])
        THEN /\ last.res.k = "UnresolvedSpecifier"
             /\ \E a \in 1..Len(last.res.v) :
                    /\ HasPrefix(From(last.res.v, a - 1), last.args[1])
                    /\ HasSuffix(From(last.res.v, a - 1 + Len(last.args[1])),
                                 String(last.args[2]))
        ELSE Returned(last.res)
                 = Ok(String(ResolveReference(last.args[2], Parse(last.args[1]).url)))

\* a relative specifier passed through and came back absolute
C4_Witness ==
    /\ last.op = "ResolveWithParent"
    /\ last.res.via.from = "none"
    /\ HasPrefix(last.args[1], <<".", "/">>)
    /\ last.res.k = "ok"
    /\ HasPrefix(last.res.v, <<"h", "t", "t", "p", ":">>)
    /\ TableAt(tabs, m.imports) # EmptyTable

C6_RebasePreservesResolutions ==
    (last.op = "ResolveWithParent" /\ last.prev.op = "Rebase" /\ last.prev.res.k = "ok") =>
        \A r0 \in ResolveWithParent(last.prev.pre.tabs, last.prev.pre.stabs, last.prev.pre.m,
                                    last.args[1], last.args[2]) :
            r0.k = "ok" => Returned(last.res) = Returned(r0)

\* C7: after a successful Rebase to another pair and a successful Rebase back to
\* the pair the map had, the imports, scopes and integrity tables are the tables
\* before the first Rebase.
C7_RebaseRoundTrip ==
    (/\ last.op = "Rebase" /\ last.res.k = "ok"
     /\ last.prev.op = "Rebase" /\ last.prev.res.k = "ok"
     /\ last.args = <<last.prev.pre.m.mapUrl, last.prev.pre.m.rootUrl>>) =>
        Tables(tabs, stabs, m)
            = Tables(last.prev.pre.tabs, last.prev.pre.stabs, last.prev.pre.m)

\* C8: for u canonical under (mapUrl, rootUrl), that is a result of rebase under
\* the pair, rebase of resolve of u under the pair returns u.
C8_CanonicalRoundTrip ==
    last.op = "roundTrip" => last.res.back = Ok(last.res.u)

\* C9: ResolveWithParent ends by returning a location or an error, never by
\* aborting.
C9_ResolveNeverAborts ==
    last.op = "ResolveWithParent" => last.res.k # "panic"

\* C10: after a successful Extend the rootUrl and the mapUrl of the receiver are
\* the ones it had before the call.
C10_ExtendKeepsUrls ==
    (last.op = "Extend" /\ last.res.k = "ok") =>
        /\ m.mapUrl = last.pre.m.mapUrl
        /\ m.rootUrl = last.pre.m.rootUrl

\* C11: after a successful Extend, for every scope key S of the other map whose
\* entries (and the receiver's entries for S) have plain keys and canonical
\* targets, the receiver has a table for S, under S or its canonical form: the
\* other map's entries for S when overrideScopes is set or the receiver had no
\* table for S, else the receiver's former entries overwritten by the other's.
C11_ExtendScopes ==
    (last.op = "Extend" /\ last.res.k = "ok") =>
        LET mine == Scopes(last.pre.tabs, last.pre.stabs, last.pre.m)
            theirs == Scopes(last.pre.tabs, last.pre.stabs, last.pre.o)
            now == Scopes(tabs, stabs, m)
            canonical(s) ==
                rebase(resolve(s, last.pre.m.mapUrl, last.pre.m.rootUrl).v,
                       last.pre.m.mapUrl, last.pre.m.rootUrl)
            settled(t) == \A k \in DOMAIN t : isPlain(k) /\ canonical(t[k]) = Ok(t[k])
        IN  \A S \in DOMAIN theirs :
                (settled(theirs[S]) /\ (S \in DOMAIN mine => settled(mine[S]))) =>
                    \E key \in {S, canonical(S).v} :
                        /\ key \in DOMAIN now
                        /\ now[key] = IF last.args[1] \/ S \notin DOMAIN mine THEN theirs[S]
                                      ELSE Merge(mine[S], theirs[S])

\* C12: a GetIntegrityValue on the target of the successful SetIntegrityValue
\* just before it returns the hash that was set.
C12_IntegrityRoundTrip ==
    (/\ last.op = "GetIntegrityValue"
     /\ last.prev.op = "SetIntegrityValue"
     /\ last.prev.res.k = "ok"
     /\ last.args[1] = last.prev.args[1]) =>
        last.res = Ok(last.prev.args[2])

\* C16: Replace returns the map itself, and after it every stored target (of the
\* imports, of every scope, and the targets the integrity table is keyed by)
\* that was equal to the old location, or prefixed by it when it ends in /, is
\* rewritten to the new location, and nothing else is changed.
C16_ReplaceRewrites ==
    last.op = "Replace" =>
        LET old == String(last.args[1])
            new == String(last.args[2])
            moved(t) == IF t = old THEN new
                        ELSE IF HasSuffix(old, <<"/">>) /\ HasPrefix(t, old)
                        THEN new \o From(t, Len(old))
                        ELSE t
            was == Tables(last.pre.tabs, last.pre.stabs, last.pre.m)
            now == Tables(tabs, stabs, m)
        IN  /\ last.res.self
            /\ now.imports = [k \in DOMAIN was.imports |-> moved(was.imports[k])]
            /\ now.scopes = [sk \in DOMAIN was.scopes |->
                                [k \in DOMAIN was.scopes[sk] |-> moved(was.scopes[sk][k])]]
            /\ DOMAIN now.integrity = {moved(t) : t \in DOMAIN was.integrity}

\* C20: GetIntegrityValue returns a hash exactly when the integrity table has an
\* entry under the rebased target, or under the rebased target without a leading
\* ./, and that entry's hash; for every other target it returns IntegrityNotFound.
C20_IntegrityLookup ==
    (last.op = "GetIntegrityValue" /\ IsOk(rebase(last.args[1], m.mapUrl, m.rootUrl))) =>
        LET table == TableAt(tabs, m.integrity)
            key == rebase(last.args[1], m.mapUrl, m.rootUrl).v
        IN  IF key \in DOMAIN table THEN last.res = Ok(table[key])
            ELSE IF HasPrefix(key, <<".", "/">>) /\ From(key, 2) \in DOMAIN table
            THEN last.res = Ok(table[From(key, 2)])
            ELSE last.res.k = "IntegrityNotFound"

\* C13: on a map made with a table absent, the calls that write to that table
\* complete: SetWithParent stores the entry in a scope table it makes, Set stores
\* the entry, and Extend does not abort.
C13_AbsentTablesAreEmpty ==
    /\ (last.op = "SetWithParent" /\ last.pre.m.scopes = NilMap) =>
           /\ last.res.k = "ok"
           /\ last.args[3] \in DOMAIN Scopes(tabs, stabs, m)
           /\ last.args[1] \in DOMAIN Scopes(tabs, stabs, m)[last.args[3]]
    /\ (last.op = "Set" /\ last.pre.m.imports = NilMap) =>
           /\ last.res.k = "ok"
           /\ last.args[1] \in DOMAIN Imports(tabs, m)
    /\ (last.op = "Extend" /\ (last.pre.m.scopes = NilMap \/ last.pre.m.integrity = NilMap)) =>
           last.res.k # "panic"

\* C14: Rebase with no mapUrl returns the InvalidArgument error and leaves the
\* tables, the mapUrl and the rootUrl of the map as they were.
C14_RebaseNilMapUrl ==
    (last.op = "Rebase" /\ last.args[1] = NilUrl) =>
        /\ last.res.k = "InvalidArgument"
        /\ tabs = last.pre.tabs
        /\ stabs = last.pre.stabs
        /\ m = last.pre.m

\* Rebase with no mapUrl was called on a map with a rootUrl and entries in its
\* three tables, after another call had changed the map
C14_Witness ==
    /\ last.op = "Rebase"
    /\ last.args[1] = NilUrl
    /\ last.res.k = "InvalidArgument"
    /\ last.prev.op \in {"Set", "SetWithParent"}
    /\ last.prev.res.k = "ok"
    /\ m.rootUrl # NilUrl
    /\ Imports(tabs, m) # EmptyTable
    /\ Scopes(tabs, stabs, m) # EmptyTable
    /\ Integrity(tabs, m) # EmptyTable

\* C15: rebase of an absolute location that ends in /, is a proper ancestor of the
\* rootUrl (the rootUrl's text starts with the location's text) and has the origin of the
\* baseUrl returns the location as it was given.
C15_RebaseAncestorOfRoot ==
    (/\ last.op = "roundTrip"
     /\ m.rootUrl # NilUrl
     /\ Parse(last.args[1]).url.Scheme # <<>>
     /\ HasSuffix(last.args[1], <<"/">>)
     /\ HasPrefix(String(m.rootUrl), last.args[1])
     /\ String(m.rootUrl) # last.args[1]
     /\ sameOrigin(Parse(last.args[1]).url, m.mapUrl)) =>
        last.res.u = last.args[1]

C18_TopLevelAfterScopes ==
    (/\ last.op = "ResolveWithParent"
     /\ last.res.via.from \in {"imports", "none"}
     /\ m.scopes # NilMap) =>
        Returned(last.res) \in
            {Returned(r) : r \in ResolveWithParent(tabs, [stabs EXCEPT ![m.scopes] = EmptyTable], m,
                                                   last.args[1], last.args[2])}

\* what ResolveWithParent returns for the arguments before a Rebase was called,
\* and after each way the whole of that Rebase can run on the same map
resultsBefore(rb, args) ==
    {Returned(r) : r \in ResolveWithParent(rb.pre.tabs, rb.pre.stabs, rb.pre.m, args[1], args[2])}

resultsAfter(rb, args) ==
    UNION {{Returned(r) : r \in ResolveWithParent(a.tabs, a.stabs, a.m, args[1], args[2])} :
              a \in Rebase(rb.pre.tabs, rb.pre.stabs, rb.pre.m, rb.args[1], rb.args[2])}

\* C19: a resolution beside a Rebase returns something that it returns neither
\* on the map as it was before the Rebase nor on the map as the whole Rebase
\* leaves it only while the Rebase is between two of its steps: once the Rebase
\* has returned, every resolution sees one of the maps the whole Rebase gives.
C19_MixedOnlyWhileRebaseRuns ==
    (/\ last.op = "ResolveWithParent"
     /\ last.prev.op = "Rebase"
     /\ Returned(last.res) \notin resultsBefore(last.prev, last.args) \cup resultsAfter(last.prev, last.args)) =>
        last.prev.res.k = "running"

\* a resolution between two steps of a Rebase returned a url that it returns
\* neither before nor after that Rebase
C19_Witness ==
    /\ last.op = "ResolveWithParent"
    /\ last.prev.op = "Rebase"
    /\ last.prev.res.k = "running"
    /\ last.prev.at.phase \in {"imports", "scopes", "integrity"}
    /\ last.prev.at.visited # {}
    /\ last.res.k = "ok"
    /\ Returned(last.res) \notin resultsBefore(last.prev, last.args) \cup resultsAfter(last.prev, last.args)

\* C21: the tables a Rebase leaves are the same for every order in which its
\* ranges produce the entries, and whether or not they produce the entries
\* made during the range: every way the call can run on the map it was called
\* on ends with the tables this run ended with.
C21_RebaseDeterministic ==
    last.op = "Rebase" =>
        \A r \in Rebase(last.pre.tabs, last.pre.stabs, last.pre.m, last.args[1], last.args[2]) :
            Tables(r.tabs, r.stabs, r.m) = Tables(tabs, stabs, m)

\* the tables the map given to Extend was made with
otherTables ==
    [imports |-> DataOther.Imports.t, scopes |-> DataOther.Scopes.t,
     integrity |-> DataOther.Integrity.t]

\* C22: Extend changes the receiver only: after an Extend, and after a Set, a
\* SetWithParent or a Rebase on the receiver that follows it, the imports, the
\* scopes with their tables and the integrity table of the other map are the
\* ones it was made with.
C22_ExtendLeavesOther ==
    (\/ last.op = "Extend"
     \/ (last.op \in {"Set", "SetWithParent", "Rebase"} /\ last.prev.op = "Extend")) =>
        Tables(tabs, stabs, o) = otherTables

\* the map of a snapshot that a call on who was not made on
bystanderIn(snap, who) == IF who = "m" THEN snap.o ELSE snap.m

\* C23: a map and its clone are independent: a Set, SetWithParent,
\* SetIntegrityValue, Extend or Rebase on one of the two leaves the imports,
\* scopes and integrity tables of the other, and what the other resolves, as
\* they were before the call.
C23_CloneIndependent ==
    (last.op \in {"Set", "SetWithParent", "SetIntegrityValue", "Extend", "Rebase"}) =>
        /\ Tables(tabs, stabs, bystander(last.args[1]))
               = Tables(last.pre.tabs, last.pre.stabs, bystanderIn(last.pre, last.args[1]))
        /\ \A specifier \in RaceSpecifiers, parentUrl \in RaceParents :
               {Returned(r) : r \in ResolveWithParent(tabs, stabs, bystander(last.args[1]),
                                                      specifier, parentUrl)}
                   = {Returned(r) : r \in ResolveWithParent(last.pre.tabs, last.pre.stabs,
                                                            bystanderIn(last.pre, last.args[1]),
                                                            specifier, parentUrl)}

=============================================================================
